---- MODULE Spec2Model ----
(***************************************************************************)
(* Chat platform backend: the chat turn pipeline (routes/chat.py), the     *)
(* conversation store (routes/conversations.py, models.py), the credential *)
(* vault (services/encryption.py, routes/auth.py) and the agent resolver   *)
(* (services/ai_service.py).                                               *)
(*                                                                         *)
(* Text is a sequence of string tokens; concatenation is \o.  A turn is a  *)
(* request handled by chat_stream or chat_message; its local variables are *)
(* the fields of turns[t].  The store is MySQL/InnoDB (config.py:42):      *)
(* foreign keys are enforced, AUTO_INCREMENT ids are never reused, and the *)
(* reads of one transaction see one snapshot.                              *)
(***************************************************************************)
EXTENDS Integers, Sequences, FiniteSets, TLC

VARIABLES
    conversations,          \* table conversations: id -> row
    messages,               \* table messages: the rows in insertion (id) order
    api_keys,               \* table api_keys: a set of rows
    next_message_id,        \* AUTO_INCREMENT of messages.id
    next_conversation_id,   \* AUTO_INCREMENT of conversations.id
    next_api_key_id,        \* AUTO_INCREMENT of api_keys.id
    clock,                  \* datetime.utcnow()
    turns,                  \* the chat requests: t -> the handler's locals
    requests,               \* conversation/credential requests served so far
    response,               \* the response to the last of them
    adds                    \* the create_api_key requests: a -> the handler's locals

vars == <<conversations, messages, api_keys, next_message_id,
          next_conversation_id, next_api_key_id, clock, turns, requests, response,
          adds>>

store == <<conversations, messages, api_keys, next_message_id,
           next_conversation_id, next_api_key_id, clock>>

(***************************************************************************)
(* Bounds of the model.                                                    *)
(***************************************************************************)
\* the agent yields at most this many chunks in one turn
MaxChunks == 2
\* number of conversation/credential requests in one behaviour
MaxRequests == 1

\* the most messages a conversation holds when a turn reads its history
MaxPrior == 25

\* the seconds that may pass in one behaviour
MaxTicks == 1

\* the chat requests of one behaviour
Turns == {1, 2}

None == "None"

\* what .first() returns when no row matches
NoRow == [id |-> 0]

Users == {"alice", "bob"}

\* models.py ProviderEnum
ProviderEnum == {"openai", "anthropic"}

\* models.py MessageRoleEnum
USER == "user"
ASSISTANT == "assistant"
SYSTEM == "system"

\* config.py ENCRYPTION_KEY: the one process-wide key
ENCRYPTION_KEY == "k0"

\* the history window of chat_stream / chat_message
HistoryLimit == 20

\* list_conversations' default limit
ListLimit == 50

\* get_messages' default limit
MessagesLimit == 100

(***************************************************************************)
(* Text helpers.                                                           *)
(***************************************************************************)
\* the text of the i-th chunk the agent yields
ChunkText(i) == IF i = 1 THEN <<"Hello">> ELSE IF i = 2 THEN <<" there">> ELSE <<"!">>

\* the request body's message
RequestMessages == {<<"Hi">>}

\* str(e) of the exceptions an upstream provider call raises
UpstreamErrors == {<<"upstream timeout">>, <<"quota sk-secret">>}

\* str(e) of the IntegrityError a commit raises on a foreign key violation
IntegrityErrorText == <<"IntegrityError">>

\* f"data: {chunk}\n\n"
DataFrame(chunk) == <<"data: ">> \o chunk \o <<"\n\n">>

\* "data: [DONE]\n\n"
DoneFrame == <<"data: ", "[DONE]", "\n\n">>

\* error_msg = f"Error: {str(e)}"; f"data: {error_msg}\n\n"
ErrorFrame(e) == <<"data: ">> \o (<<"Error: ">> \o e) \o <<"\n\n">>

\* f"[Error: {str(e)}]"
ErrorContent(e) == <<"[Error: ">> \o e \o <<"]">>

(***************************************************************************)
(* The credential vault: Fernet under the process-wide key.  A token holds  *)
(* the ciphertext (the key it was made under and the plaintext it hides)   *)
(* and the HMAC over it; decryption verifies the HMAC under its own key.   *)
(***************************************************************************)
InvalidToken == "InvalidToken"

\* the HMAC a key gives for a ciphertext
Sign(key, plaintext) == <<key, plaintext>>

\* a vault that seals every token under a key of its own
encrypt_api_key_fresh_key(api_key) ==
    [fernet |-> "k-fresh", plaintext |-> api_key, hmac |-> Sign("k-fresh", api_key)]

encrypt_api_key(api_key) ==
    [fernet |-> ENCRYPTION_KEY, plaintext |-> api_key,
     hmac |-> Sign(ENCRYPTION_KEY, api_key)]

decrypt_api_key(encrypted_key) ==
    IF /\ encrypted_key.fernet = ENCRYPTION_KEY
       /\ encrypted_key.hmac = Sign(ENCRYPTION_KEY, encrypted_key.plaintext)
    THEN encrypted_key.plaintext
    ELSE InvalidToken

(***************************************************************************)
(* The agent resolver.                                                     *)
(***************************************************************************)
AgentTypes == {"langgraph", "openai_direct", "anthropic_direct", "crewai"}

\* a resolver whose direct strategies take any provider
AgentFactory_create_unpinned(agent_type, provider) ==
    IF agent_type = "langgraph"
    THEN [ok |-> TRUE, service |-> "LangGraphService", error |-> <<>>]
    ELSE IF agent_type = "openai_direct"
    THEN [ok |-> TRUE, service |-> "OpenAIDirectService", error |-> <<>>]
    ELSE IF agent_type = "anthropic_direct"
    THEN [ok |-> TRUE, service |-> "AnthropicDirectService", error |-> <<>>]
    ELSE [ok |-> FALSE, service |-> None,
          error |-> <<"Unknown agent_type: ", agent_type,
                      ". Supported: langgraph, openai_direct, anthropic_direct">>]

\* AgentFactory.create: the service class, or the ValueError's text
AgentFactory_create(agent_type, provider) ==
    IF agent_type = "langgraph"
    THEN [ok |-> TRUE, service |-> "LangGraphService", error |-> <<>>]
    ELSE IF agent_type = "openai_direct"
    THEN IF provider # "openai"
         THEN [ok |-> FALSE, service |-> None,
               error |-> <<"openai_direct agent requires openai provider">>]
         ELSE [ok |-> TRUE, service |-> "OpenAIDirectService", error |-> <<>>]
    ELSE IF agent_type = "anthropic_direct"
    THEN IF provider # "anthropic"
         THEN [ok |-> FALSE, service |-> None,
               error |-> <<"anthropic_direct agent requires anthropic provider">>]
         ELSE [ok |-> TRUE, service |-> "AnthropicDirectService", error |-> <<>>]
    ELSE [ok |-> FALSE, service |-> None,
          error |-> <<"Unknown agent_type: ", agent_type,
                      ". Supported: langgraph, openai_direct, anthropic_direct">>]

(***************************************************************************)
(* Store queries.                                                          *)
(***************************************************************************)
\* the lookup by primary key alone, the owner filter forgotten
ConversationById(conversation_id, user_id) ==
    IF conversation_id \in DOMAIN conversations
    THEN conversations[conversation_id] ELSE NoRow

\* db.query(Conversation).filter(id == conversation_id, user_id == user).first()
OwnedConversation(conversation_id, user_id) ==
    IF conversation_id \in DOMAIN conversations
       /\ conversations[conversation_id].user_id = user_id
    THEN conversations[conversation_id] ELSE NoRow

\* the credential lookup with the provider filter forgotten
ApiKeyRowsAnyProvider(user_id, provider) ==
    {k \in api_keys : k.user_id = user_id}

\* the credential lookup with the owner filter forgotten
ApiKeyRowsAnyUser(user_id, provider) ==
    {k \in api_keys : k.provider = provider}

\* db.query(ApiKey).filter(user_id == user, provider == provider)
ApiKeyRows(user_id, provider) ==
    {k \in api_keys : k.user_id = user_id /\ k.provider = provider}

\* ... .first()
ApiKeyFor(user_id, provider) ==
    IF ApiKeyRows(user_id, provider) = {} THEN NoRow
    ELSE CHOOSE k \in ApiKeyRows(user_id, provider) :
             \A o \in ApiKeyRows(user_id, provider) : k.id <= o.id

\* db.query(Message).filter(conversation_id == id), in insertion order
MessagesOf(conversation_id) ==
    SelectSeq(messages, LAMBDA m : m.conversation_id = conversation_id)

\* the rows of a result
Rows(result) == {result[i] : i \in DOMAIN result}

\* order_by(created_at.asc()).all(): the rows in every order in which created_at
\* never decreases; rows of equal created_at come in any order
RECURSIVE OrderByCreatedAt(_)
OrderByCreatedAt(rows) ==
    IF rows = {} THEN {<<>>}
    ELSE UNION {{<<first>> \o rest : rest \in OrderByCreatedAt(rows \ {first})} :
                  first \in {r \in rows : \A o \in rows : r.created_at <= o.created_at}}

\* reversed(s)
reversed(s) == [i \in 1..Len(s) |-> s[Len(s) + 1 - i]]

\* order_by(created_at.desc()).all()
OrderByCreatedAtDesc(rows) == {reversed(order) : order \in OrderByCreatedAt(rows)}

\* .limit(n)
limit(s, n) == IF Len(s) <= n THEN s ELSE SubSeq(s, 1, n)

\* [{"role": msg.role.value, "content": msg.content} for msg in rows]
AsHistory(rows) ==
    [i \in 1..Len(rows) |-> [role |-> rows[i].role, content |-> rows[i].content]]

\* the history a turn may read: order_by(created_at.desc()).limit(20).all(),
\* reversed, as {role, content}
RecentHistories(conversation_id) ==
    {AsHistory(reversed(limit(order, HistoryLimit))) :
        order \in OrderByCreatedAtDesc(Rows(MessagesOf(conversation_id)))}

\* a Message filed under the conversation the session wrote to last
NewMessage_last_conversation(conversation_id, role, content) ==
    [id |-> next_message_id,
     conversation_id |-> IF messages = <<>> THEN conversation_id
                         ELSE messages[Len(messages)].conversation_id,
     role |-> role, content |-> content, created_at |-> clock]

\* Message(conversation_id, role, content) as db.add + db.commit inserts it;
\* created_at defaults to utcnow, stored to the column's resolution
NewMessage(conversation_id, role, content) ==
    [id |-> next_message_id, conversation_id |-> conversation_id,
     role |-> role, content |-> content, created_at |-> clock]

\* a messages table without the foreign key: every insert goes through
CanInsertMessage_unchecked(conversation_id) == TRUE

\* the foreign key messages.conversation_id -> conversations.id holds for an insert
CanInsertMessage(conversation_id) == conversation_id \in DOMAIN conversations

(***************************************************************************)
(* The store the behaviours start from: two registered users, their       *)
(* conversations and credentials.                                          *)
(***************************************************************************)
Conversation(id, user_id, agent_type, provider) ==
    [id |-> id, user_id |-> user_id, title |-> <<"New Chat">>,
     agent_type |-> agent_type, provider |-> provider, updated_at |-> 0]

ApiKey(id, user_id, provider, api_key) ==
    [id |-> id, user_id |-> user_id, provider |-> provider,
     encrypted_key |-> encrypt_api_key(api_key), updated_at |-> 0]

SeedConversations ==
    <<Conversation(1, "alice", "langgraph", "openai"),
      Conversation(2, "alice", "anthropic_direct", "anthropic"),
      Conversation(3, "bob", "langgraph", "anthropic"),
      Conversation(4, "bob", "openai_direct", "anthropic"),
      Conversation(5, "bob", "crewai", "anthropic")>>

SeedApiKeys ==
    {ApiKey(1, "alice", "openai", "sk-alice"),
     ApiKey(2, "bob", "anthropic", "sk-bob")}

SeedMessages ==
    <<[id |-> 1, conversation_id |-> 1, role |-> USER, content |-> <<"Hi!">>,
       created_at |-> 0],
      [id |-> 2, conversation_id |-> 1, role |-> ASSISTANT, content |-> <<"Hello">>,
       created_at |-> 1],
      [id |-> 3, conversation_id |-> 3, role |-> USER, content |-> <<"Hey">>,
       created_at |-> 2]>>

\* the conversation ids a request may name: every id handed out so far, and the next
ConversationIds == 1..next_conversation_id

Modes == {"stream", "message"}

\* the locals of one chat request
NewTurn ==
    [pc |-> "idle", user_id |-> None, conversation_id |-> 0, mode |-> None,
     message |-> <<>>, api_key |-> None, history |-> <<>>, service |-> None,
     full_response |-> <<>>, chunks |-> 0, frames |-> <<>>, error |-> <<>>,
     status |-> 0, detail |-> <<>>, body |-> NoRow, appended |-> <<>>,
     queried_key |-> FALSE, invoked |-> FALSE, closed |-> FALSE, raised |-> FALSE,
     crashed |-> FALSE]

\* the create_api_key requests of one behaviour
Adds == {1, 2}

\* the locals of one create_api_key request
NewAdd == [pc |-> "idle", user_id |-> None, provider |-> None, api_key |-> None,
           existing_key |-> NoRow, status |-> 0]

\* a response: who receives it, from which route, the status, and the body
NoResponse == [user_id |-> None, op |-> None, status |-> 0, detail |-> <<>>,
               conversations |-> <<>>, messages |-> <<>>, api_keys |-> {}]

Init ==
    /\ conversations = [c \in 1..Len(SeedConversations) |-> SeedConversations[c]]
    /\ messages = SeedMessages
    /\ api_keys = SeedApiKeys
    /\ next_message_id = Len(SeedMessages) + 1
    /\ next_conversation_id = Len(SeedConversations) + 1
    /\ next_api_key_id = Cardinality(SeedApiKeys) + 1
    /\ clock = Len(SeedMessages)
    /\ turns = [t \in Turns |-> NewTurn]
    /\ requests = 0
    /\ response = NoResponse
    /\ adds = [a \in Adds |-> NewAdd]

(***************************************************************************)
(* The chat turn: chat_stream and chat_message share the steps up to the   *)
(* agent's construction.                                                   *)
(***************************************************************************)
Finish(turn, status, detail) ==
    [turn EXCEPT !.pc = "done", !.status = status, !.detail = detail]

\* The reads before the first commit: conversation by (id, owner), the api key of
\* (owner, conversation.provider), its decryption, the trailing history.
LoadTurn(turn, history) ==
    LET conversation == OwnedConversation(turn.conversation_id, turn.user_id)
        api_key_record == ApiKeyFor(turn.user_id, conversation.provider)
        api_key == decrypt_api_key(api_key_record.encrypted_key)
    IN  IF conversation = NoRow
        THEN Finish(turn, 404, <<"Conversation not found">>)
        ELSE IF api_key_record = NoRow
        THEN Finish([turn EXCEPT !.queried_key = TRUE], 400,
                    <<"No API key configured for ", conversation.provider>>)
        ELSE IF api_key = InvalidToken
        THEN Finish([turn EXCEPT !.queried_key = TRUE, !.crashed = TRUE], 500,
                    <<"Internal Server Error">>)
        ELSE [turn EXCEPT !.pc = "save_user", !.queried_key = TRUE,
                          !.api_key = api_key,
                          !.history = history]

\* A request arrives: POST /chat/stream or POST /chat/message as user_id.
chat_request(t, user_id, conversation_id, mode, message) ==
    /\ turns[t].pc = "idle"
    /\ \A o \in Turns : o < t => turns[o].pc # "idle"
    /\ \E history \in RecentHistories(conversation_id) :
         turns' = [turns EXCEPT ![t] =
                    LoadTurn([NewTurn EXCEPT !.user_id = user_id,
                                             !.conversation_id = conversation_id,
                                             !.mode = mode, !.message = message],
                             history)]
    /\ UNCHANGED <<store, requests, response, adds>>

\* the user message left uncommitted when the agent is built
chat_save_user_deferred(t) ==
    /\ turns[t].pc = "save_user"
    /\ turns' = [turns EXCEPT ![t].pc = "resolve"]
    /\ UNCHANGED <<store, requests, response, adds>>

\* a save that also touches the parent conversation, moving its updated_at
chat_save_user_touching(t) ==
    /\ turns[t].pc = "save_user"
    /\ IF CanInsertMessage(turns[t].conversation_id)
       THEN /\ messages' = Append(messages,
                    NewMessage(turns[t].conversation_id, USER, turns[t].message))
            /\ next_message_id' = next_message_id + 1
            /\ conversations' = [conversations EXCEPT
                    ![turns[t].conversation_id].updated_at = clock]
            /\ turns' = [turns EXCEPT ![t].pc = "resolve",
                    ![t].appended = Append(@,
                        NewMessage(turns[t].conversation_id, USER, turns[t].message))]
       ELSE /\ turns' = [turns EXCEPT ![t] =
                    Finish([@ EXCEPT !.crashed = TRUE], 500, <<"Internal Server Error">>)]
            /\ UNCHANGED <<messages, next_message_id, conversations>>
    /\ UNCHANGED <<api_keys, next_conversation_id, next_api_key_id,
                   clock, requests, response, adds>>

\* db.add(user_message); db.commit()
chat_save_user(t) ==
    /\ turns[t].pc = "save_user"
    /\ IF CanInsertMessage(turns[t].conversation_id)
       THEN /\ messages' = Append(messages,
                    NewMessage(turns[t].conversation_id, USER, turns[t].message))
            /\ next_message_id' = next_message_id + 1
            /\ turns' = [turns EXCEPT ![t].pc = "resolve",
                    ![t].appended = Append(@,
                        NewMessage(turns[t].conversation_id, USER, turns[t].message))]
       ELSE /\ turns' = [turns EXCEPT ![t] =
                    Finish([@ EXCEPT !.crashed = TRUE], 500, <<"Internal Server Error">>)]
            /\ UNCHANGED <<messages, next_message_id>>
    /\ UNCHANGED <<conversations, api_keys, next_conversation_id, next_api_key_id,
                   clock, requests, response, adds>>

\* a resolution failure that takes the turn's user message back out of the store
chat_resolve_rollback(t) ==
    /\ turns[t].pc = "resolve"
    /\ turns[t].conversation_id \in DOMAIN conversations
    /\ LET made == AgentFactory_create(
                        conversations[turns[t].conversation_id].agent_type,
                        conversations[turns[t].conversation_id].provider)
       IN  IF ~made.ok
           THEN /\ messages' = SelectSeq(messages,
                        LAMBDA m : \A i \in 1..Len(turns[t].appended) :
                                      m.id # turns[t].appended[i].id)
                /\ turns' = [turns EXCEPT ![t] =
                        Finish([@ EXCEPT !.appended = <<>>], 400, made.error)]
           ELSE /\ messages' = messages
                /\ turns' = [turns EXCEPT ![t].pc =
                                IF turns[t].mode = "stream" THEN "stream" ELSE "collect",
                              ![t].service = made.service,
                              ![t].status = IF turns[t].mode = "stream" THEN 200 ELSE 0]
    /\ UNCHANGED <<conversations, api_keys, next_message_id, next_conversation_id,
                   next_api_key_id, clock, requests, response, adds>>

\* AgentFactory.create(conversation.agent_type, conversation.provider.value, api_key);
\* the conversation's attributes are reloaded after the commit expired them.
chat_resolve(t) ==
    /\ turns[t].pc = "resolve"
    /\ turns' = [turns EXCEPT ![t] =
          IF turns[t].conversation_id \notin DOMAIN conversations
          THEN Finish([@ EXCEPT !.crashed = TRUE], 500, <<"Internal Server Error">>)
          ELSE LET made == AgentFactory_create(
                               conversations[turns[t].conversation_id].agent_type,
                               conversations[turns[t].conversation_id].provider)
               IN  IF ~made.ok THEN Finish(@, 400, made.error)
                   ELSE IF turns[t].mode = "stream"
                   THEN [@ EXCEPT !.pc = "stream", !.service = made.service,
                                  !.status = 200]
                   ELSE [@ EXCEPT !.pc = "collect", !.service = made.service]]
    /\ UNCHANGED <<store, requests, response, adds>>

(***************************************************************************)
(* chat_stream.generate: the response generator.  At pc "stream" it is     *)
(* suspended awaiting the agent's next chunk or at the yield of a chunk's  *)
(* frame; at "yield_done" and "yield_error" at the yield of that frame.    *)
(***************************************************************************)
\* a loop that forwards the chunk and does not accumulate it
stream_chunk_unaccumulated(t) ==
    /\ turns[t].pc = "stream"
    /\ turns[t].chunks < MaxChunks
    /\ turns' = [turns EXCEPT ![t].invoked = TRUE,
                              ![t].chunks = @ + 1,
                              ![t].frames = Append(@, DataFrame(ChunkText(turns[t].chunks + 1)))]
    /\ UNCHANGED <<store, requests, response, adds>>

\* async for chunk in service.chat(...): full_response += chunk; yield frame
stream_chunk(t) ==
    /\ turns[t].pc = "stream"
    /\ turns[t].chunks < MaxChunks
    /\ turns' = [turns EXCEPT ![t].invoked = TRUE,
                              ![t].chunks = @ + 1,
                              ![t].full_response = @ \o ChunkText(turns[t].chunks + 1),
                              ![t].frames = Append(@, DataFrame(ChunkText(turns[t].chunks + 1)))]
    /\ UNCHANGED <<store, requests, response, adds>>

\* the agent's stream ends: yield "data: [DONE]\n\n"
stream_end(t) ==
    /\ turns[t].pc = "stream"
    /\ turns' = [turns EXCEPT ![t].invoked = TRUE,
                              ![t].pc = "yield_done",
                              ![t].frames = Append(@, DoneFrame)]
    /\ UNCHANGED <<store, requests, response, adds>>

\* the failure swallowed: the stream is closed with the sentinel, as on success
stream_raise_silent(t, e) ==
    /\ turns[t].pc = "stream"
    /\ turns' = [turns EXCEPT ![t].invoked = TRUE,
                              ![t].raised = TRUE,
                              ![t].error = e,
                              ![t].pc = "yield_error",
                              ![t].frames = Append(@, DoneFrame)]
    /\ UNCHANGED <<store, requests, response, adds>>

\* the agent's stream raises e: except Exception as e: yield the error frame
stream_raise(t, e) ==
    /\ turns[t].pc = "stream"
    /\ turns' = [turns EXCEPT ![t].invoked = TRUE,
                              ![t].raised = TRUE,
                              ![t].error = e,
                              ![t].pc = "yield_error",
                              ![t].frames = Append(@, ErrorFrame(e))]
    /\ UNCHANGED <<store, requests, response, adds>>

\* a persist step that saves no reply when the conversation already ends in one
stream_persist_deduplicating(t) ==
    /\ turns[t].pc = "yield_done"
    /\ LET rows == MessagesOf(turns[t].conversation_id) IN
       IF rows # <<>> /\ rows[Len(rows)].role = ASSISTANT
       THEN /\ turns' = [turns EXCEPT ![t].pc = "done"]
            /\ UNCHANGED <<messages, next_message_id>>
       ELSE /\ messages' = Append(messages,
                    NewMessage(turns[t].conversation_id, ASSISTANT, turns[t].full_response))
            /\ next_message_id' = next_message_id + 1
            /\ turns' = [turns EXCEPT ![t].pc = "done",
                    ![t].appended = Append(@,
                        NewMessage(turns[t].conversation_id, ASSISTANT,
                                   turns[t].full_response))]
    /\ UNCHANGED <<conversations, api_keys, next_conversation_id, next_api_key_id,
                   clock, requests, response, adds>>

\* resumed after [DONE]: db.add(assistant_message); db.commit(); a commit that
\* raises is caught by the same except clause
stream_persist(t) ==
    /\ turns[t].pc = "yield_done"
    /\ IF CanInsertMessage(turns[t].conversation_id)
       THEN /\ messages' = Append(messages,
                    NewMessage(turns[t].conversation_id, ASSISTANT, turns[t].full_response))
            /\ next_message_id' = next_message_id + 1
            /\ turns' = [turns EXCEPT ![t].pc = "done",
                    ![t].appended = Append(@,
                        NewMessage(turns[t].conversation_id, ASSISTANT,
                                   turns[t].full_response))]
       ELSE /\ turns' = [turns EXCEPT ![t].pc = "yield_error",
                                      ![t].error = IntegrityErrorText,
                                      ![t].frames = Append(@, ErrorFrame(IntegrityErrorText))]
            /\ UNCHANGED <<messages, next_message_id>>
    /\ UNCHANGED <<conversations, api_keys, next_conversation_id, next_api_key_id,
                   clock, requests, response, adds>>

\* an error path that waits for its commit to succeed instead of raising
stream_persist_error_retrying(t) ==
    /\ turns[t].pc = "yield_error"
    /\ IF CanInsertMessage(turns[t].conversation_id)
       THEN /\ messages' = Append(messages,
                    NewMessage(turns[t].conversation_id, ASSISTANT,
                               ErrorContent(turns[t].error)))
            /\ next_message_id' = next_message_id + 1
            /\ turns' = [turns EXCEPT ![t].pc = "done",
                    ![t].appended = Append(@,
                        NewMessage(turns[t].conversation_id, ASSISTANT,
                                   ErrorContent(turns[t].error)))]
       ELSE UNCHANGED <<turns, messages, next_message_id>>
    /\ UNCHANGED <<conversations, api_keys, next_conversation_id, next_api_key_id,
                   clock, requests, response, adds>>

\* resumed after the error frame: the error is saved as the assistant message; a
\* commit that raises here leaves the generator
stream_persist_error(t) ==
    /\ turns[t].pc = "yield_error"
    /\ IF CanInsertMessage(turns[t].conversation_id)
       THEN /\ messages' = Append(messages,
                    NewMessage(turns[t].conversation_id, ASSISTANT,
                               ErrorContent(turns[t].error)))
            /\ next_message_id' = next_message_id + 1
            /\ turns' = [turns EXCEPT ![t].pc = "done",
                    ![t].appended = Append(@,
                        NewMessage(turns[t].conversation_id, ASSISTANT,
                                   ErrorContent(turns[t].error)))]
       ELSE /\ turns' = [turns EXCEPT ![t].pc = "done", ![t].crashed = TRUE]
            /\ UNCHANGED <<messages, next_message_id>>
    /\ UNCHANGED <<conversations, api_keys, next_conversation_id, next_api_key_id,
                   clock, requests, response, adds>>

\* The client goes away: the generator is cancelled where it is suspended.
\* CancelledError and GeneratorExit are no Exception, so no handler runs.
client_disconnect(t) ==
    /\ turns[t].pc \in {"stream", "yield_done", "yield_error"}
    /\ turns' = [turns EXCEPT ![t].pc = "done", ![t].closed = TRUE]
    /\ UNCHANGED <<store, requests, response, adds>>

(***************************************************************************)
(* chat_message: the blocking mode's collection loop.                      *)
(***************************************************************************)
\* async for chunk in service.chat(...): full_response += chunk
collect_chunk(t) ==
    /\ turns[t].pc = "collect"
    /\ turns[t].chunks < MaxChunks
    /\ turns' = [turns EXCEPT ![t].invoked = TRUE,
                              ![t].chunks = @ + 1,
                              ![t].full_response = @ \o ChunkText(turns[t].chunks + 1)]
    /\ UNCHANGED <<store, requests, response, adds>>

\* the stream ends: the assistant message is committed and the reply returned
collect_end(t) ==
    /\ turns[t].pc = "collect"
    /\ IF CanInsertMessage(turns[t].conversation_id)
       THEN /\ messages' = Append(messages,
                    NewMessage(turns[t].conversation_id, ASSISTANT, turns[t].full_response))
            /\ next_message_id' = next_message_id + 1
            /\ turns' = [turns EXCEPT ![t].invoked = TRUE,
                    ![t].pc = "done", ![t].status = 200,
                    ![t].body = [message |-> turns[t].full_response,
                                 message_id |-> next_message_id],
                    ![t].appended = Append(@,
                        NewMessage(turns[t].conversation_id, ASSISTANT,
                                   turns[t].full_response))]
       ELSE /\ turns' = [turns EXCEPT ![t] =
                    Finish([@ EXCEPT !.invoked = TRUE, !.crashed = TRUE], 500,
                           <<"Internal Server Error">>)]
            /\ UNCHANGED <<messages, next_message_id>>
    /\ UNCHANGED <<conversations, api_keys, next_conversation_id, next_api_key_id,
                   clock, requests, response, adds>>

\* the stream raises e: HTTPException(500, detail=str(e)), nothing is saved
collect_raise(t, e) ==
    /\ turns[t].pc = "collect"
    /\ turns' = [turns EXCEPT ![t] =
            Finish([@ EXCEPT !.invoked = TRUE, !.raised = TRUE, !.error = e], 500, e)]
    /\ UNCHANGED <<store, requests, response, adds>>

(***************************************************************************)
(* Conversation requests (routes/conversations.py).  Each serves one       *)
(* request as user_id and leaves its response in `response`.               *)
(***************************************************************************)
Respond(user_id, op, status) ==
    [NoResponse EXCEPT !.user_id = user_id, !.op = op, !.status = status]

\* HTTPException(404, "Conversation not found")
NotFound(user_id, op) ==
    [Respond(user_id, op, 404) EXCEPT
        !.detail = <<"Conversation not found">>]

\* ConversationResponse: the row as serialized, message_count -1 when not set
ConversationResponse(row, message_count) ==
    [id |-> row.id, title |-> row.title, agent_type |-> row.agent_type,
     provider |-> row.provider, updated_at |-> row.updated_at,
     message_count |-> message_count]

\* MessageResponse
MessageResponse(row) ==
    [id |-> row.id, role |-> row.role, content |-> row.content,
     created_at |-> row.created_at]

MessageResponses(rows) == [i \in 1..Len(rows) |-> MessageResponse(rows[i])]

\* ApiKeyResponse
ApiKeyResponse(row) == [id |-> row.id, provider |-> row.provider]

\* the titles a request may carry; the empty one stands for no title
Titles == {<<>>, <<"Plans">>}

\* POST /conversations/
create_conversation(user_id, title, agent_type, provider) ==
    /\ requests < MaxRequests
    /\ LET conversation ==
            [id |-> next_conversation_id, user_id |-> user_id,
             title |-> IF title = <<>> THEN <<"New Chat - ", "utcnow">> ELSE title,
             agent_type |-> agent_type, provider |-> provider, updated_at |-> clock]
       IN  /\ conversations' = [c \in DOMAIN conversations \cup {conversation.id} |->
                                  IF c = conversation.id THEN conversation
                                  ELSE conversations[c]]
           /\ response' = [Respond(user_id, "create_conversation", 201) EXCEPT
                              !.conversations = <<ConversationResponse(conversation, -1)>>]
    /\ next_conversation_id' = next_conversation_id + 1
    /\ requests' = requests + 1
    /\ UNCHANGED <<messages, api_keys, next_message_id, next_api_key_id, clock, turns, adds>>

\* the ids of user_id's conversations, most recently updated first; rows of equal
\* updated_at come in any order
ListOrders(user_id) ==
    LET owned == {c \in DOMAIN conversations : conversations[c].user_id = user_id}
    IN  {order \in [1..Cardinality(owned) -> owned] :
            /\ \A i, j \in DOMAIN order : i # j => order[i] # order[j]
            /\ \A i, j \in DOMAIN order :
                 i < j => conversations[order[i]].updated_at
                            >= conversations[order[j]].updated_at}

\* GET /conversations/ (skip = 0, limit = 50)
list_conversations(user_id) ==
    /\ requests < MaxRequests
    /\ \E order \in ListOrders(user_id) :
         response' = [Respond(user_id, "list_conversations", 200) EXCEPT
            !.conversations =
                [i \in 1..(IF Len(order) < ListLimit THEN Len(order) ELSE ListLimit)
                   |-> ConversationResponse(conversations[order[i]],
                                            Len(MessagesOf(order[i])))]]
    /\ requests' = requests + 1
    /\ UNCHANGED <<store, turns, adds>>

\* GET /conversations/{conversation_id}
get_conversation(user_id, conversation_id) ==
    /\ requests < MaxRequests
    /\ LET conversation == OwnedConversation(conversation_id, user_id)
       IN  \E rows \in OrderByCreatedAt(Rows(MessagesOf(conversation_id))) :
             response' =
               IF conversation = NoRow
               THEN NotFound(user_id, "get_conversation")
               ELSE [Respond(user_id, "get_conversation", 200) EXCEPT
                       !.conversations = <<ConversationResponse(conversation, -1)>>,
                       !.messages = MessageResponses(rows)]
    /\ requests' = requests + 1
    /\ UNCHANGED <<store, turns, adds>>

\* PATCH /conversations/{conversation_id}?title=...
update_conversation(user_id, conversation_id, title) ==
    /\ requests < MaxRequests
    /\ LET conversation == OwnedConversation(conversation_id, user_id)
       IN  IF conversation = NoRow
           THEN /\ response' = NotFound(user_id, "update_conversation")
                /\ UNCHANGED <<conversations, clock>>
           ELSE /\ clock' \in {clock, clock + 1}
                /\ conversations' = [conversations EXCEPT
                        ![conversation.id].title = title,
                        ![conversation.id].updated_at = clock']
                /\ response' =
                     [Respond(user_id, "update_conversation", 200) EXCEPT
                        !.conversations =
                            <<ConversationResponse(conversations'[conversation.id], -1)>>]
    /\ requests' = requests + 1
    /\ UNCHANGED <<messages, api_keys, next_message_id, next_conversation_id,
                   next_api_key_id, turns, adds>>

\* DELETE /conversations/{conversation_id}: the conversation and, by cascade, its messages
delete_conversation(user_id, conversation_id) ==
    /\ requests < MaxRequests
    /\ LET conversation == OwnedConversation(conversation_id, user_id)
       IN  IF conversation = NoRow
           THEN /\ response' = NotFound(user_id, "delete_conversation")
                /\ UNCHANGED <<conversations, messages>>
           ELSE /\ conversations' = [c \in DOMAIN conversations \ {conversation.id}
                                        |-> conversations[c]]
                /\ messages' = SelectSeq(messages,
                                    LAMBDA m : m.conversation_id # conversation.id)
                /\ response' = Respond(user_id, "delete_conversation", 204)
    /\ requests' = requests + 1
    /\ UNCHANGED <<api_keys, next_message_id, next_conversation_id, next_api_key_id,
                   clock, turns, adds>>

\* GET /conversations/{conversation_id}/messages (skip = 0, limit = 100)
get_messages(user_id, conversation_id) ==
    /\ requests < MaxRequests
    /\ LET conversation == OwnedConversation(conversation_id, user_id)
       IN  \E rows \in OrderByCreatedAt(Rows(MessagesOf(conversation_id))) :
             response' =
               IF conversation = NoRow
               THEN NotFound(user_id, "get_messages")
               ELSE [Respond(user_id, "get_messages", 200) EXCEPT
                       !.messages = MessageResponses(limit(rows, MessagesLimit))]
    /\ requests' = requests + 1
    /\ UNCHANGED <<store, turns, adds>>

(***************************************************************************)
(* Credential requests (routes/auth.py).                                   *)
(***************************************************************************)
\* the keys a request may carry
ApiKeyInputs == {"sk-new"}

\* the unique constraint unique_user_provider left out of the table
NoUniqueConstraint(user_id, provider) == TRUE

\* UniqueConstraint("user_id", "provider"): an insert for the pair is accepted
UniqueUserProvider(user_id, provider) == ApiKeyRows(user_id, provider) = {}

\* POST /auth/api-keys arrives as user_id: the row of (user, provider) is looked up
create_api_key(a, user_id, provider, api_key) ==
    /\ adds[a].pc = "idle"
    /\ \A o \in Adds : o < a => adds[o].pc # "idle"
    /\ adds' = [adds EXCEPT ![a] =
                  [NewAdd EXCEPT !.pc = "commit", !.user_id = user_id,
                                 !.provider = provider, !.api_key = api_key,
                                 !.existing_key = ApiKeyFor(user_id, provider)]]
    /\ UNCHANGED <<store, turns, requests, response>>

\* if existing_key: the row is overwritten, else a row is added; db.commit().  An
\* UPDATE that matches no row (StaleDataError) and an INSERT the unique constraint
\* rejects (IntegrityError, the AUTO_INCREMENT value is spent) leave the handler
\* as unhandled exceptions.
create_api_key_commit(a) ==
    /\ adds[a].pc = "commit"
    /\ clock' \in {clock, clock + 1}
    /\ LET add == adds[a]
           stored == {k \in api_keys : k.id = add.existing_key.id}
           updated == {[k EXCEPT !.encrypted_key = encrypt_api_key(add.api_key),
                                 !.updated_at = clock'] : k \in stored}
           created == [id |-> next_api_key_id, user_id |-> add.user_id,
                       provider |-> add.provider,
                       encrypted_key |-> encrypt_api_key(add.api_key),
                       updated_at |-> clock']
           failed == [Respond(add.user_id, "create_api_key", 500) EXCEPT
                         !.detail = <<"Internal Server Error">>]
       IN  IF add.existing_key # NoRow
           THEN /\ api_keys' = (api_keys \ stored) \cup updated
                /\ response' = IF stored = {} THEN failed
                               ELSE [Respond(add.user_id, "create_api_key", 201) EXCEPT
                                        !.api_keys = {ApiKeyResponse(k) : k \in updated}]
                /\ adds' = [adds EXCEPT ![a].pc = "done",
                                        ![a].status = IF stored = {} THEN 500 ELSE 201]
                /\ UNCHANGED next_api_key_id
           ELSE /\ next_api_key_id' = next_api_key_id + 1
                /\ IF UniqueUserProvider(add.user_id, add.provider)
                   THEN /\ api_keys' = api_keys \cup {created}
                        /\ response' = [Respond(add.user_id, "create_api_key", 201) EXCEPT
                                           !.api_keys = {ApiKeyResponse(created)}]
                        /\ adds' = [adds EXCEPT ![a].pc = "done", ![a].status = 201]
                   ELSE /\ api_keys' = api_keys
                        /\ response' = failed
                        /\ adds' = [adds EXCEPT ![a].pc = "done", ![a].status = 500]
    /\ UNCHANGED <<conversations, messages, next_message_id, next_conversation_id,
                   turns, requests>>

\* GET /auth/api-keys
list_api_keys(user_id) ==
    /\ requests < MaxRequests
    /\ response' = [Respond(user_id, "list_api_keys", 200) EXCEPT
                      !.api_keys = {ApiKeyResponse(k) :
                                      k \in {r \in api_keys : r.user_id = user_id}}]
    /\ requests' = requests + 1
    /\ UNCHANGED <<store, turns, adds>>

\* DELETE /auth/api-keys/{provider}
delete_api_key(user_id, provider) ==
    /\ requests < MaxRequests
    /\ LET api_key == ApiKeyFor(user_id, provider)
       IN  IF api_key = NoRow
           THEN /\ response' = [Respond(user_id, "delete_api_key", 404) EXCEPT
                                  !.detail = <<"No API key found for provider ", provider>>]
                /\ UNCHANGED api_keys
           ELSE /\ api_keys' = api_keys \ {api_key}
                /\ response' = Respond(user_id, "delete_api_key", 204)
    /\ requests' = requests + 1
    /\ UNCHANGED <<conversations, messages, next_message_id, next_conversation_id,
                   next_api_key_id, clock, turns, adds>>

(***************************************************************************)
(* Specifications.  Spec: the chat pipeline, two requests in flight, with  *)
(* a client that may go away and an owner who may delete a conversation.   *)
(* SpecApi: one chat request among the conversation and credential         *)
(* requests of both users.                                                 *)
(***************************************************************************)
TurnStep(t) ==
    \/ \E user_id \in Users, conversation_id \in ConversationIds,
          mode \in Modes, message \in RequestMessages :
            chat_request(t, user_id, conversation_id, mode, message)
    \/ chat_save_user(t)
    \/ chat_resolve(t)
    \/ stream_chunk(t)
    \/ stream_end(t)
    \/ \E e \in UpstreamErrors : stream_raise(t, e)
    \/ stream_persist(t)
    \/ stream_persist_error(t)
    \/ client_disconnect(t)
    \/ collect_chunk(t)
    \/ collect_end(t)
    \/ \E e \in UpstreamErrors : collect_raise(t, e)

Next ==
    \/ \E t \in Turns : TurnStep(t)
    \/ \E user_id \in Users, conversation_id \in ConversationIds :
            delete_conversation(user_id, conversation_id)

Spec == Init /\ [][Next]_vars

\* The steps the server takes on its own once a chat request is admitted: the
\* handler's synchronous code runs to its end, and the event loop resumes the
\* generator whenever the transport asks for the next frame.
Progress(t) ==
    \/ chat_save_user(t)
    \/ chat_resolve(t)
    \/ stream_chunk(t)
    \/ stream_end(t)
    \/ \E e \in UpstreamErrors : stream_raise(t, e)
    \/ stream_persist(t)
    \/ stream_persist_error(t)
    \/ collect_chunk(t)
    \/ collect_end(t)
    \/ \E e \in UpstreamErrors : collect_raise(t, e)

\* Spec under fair scheduling of every admitted turn.  Neither the arrival of a
\* request, nor the client's going away, nor a deletion is ever obliged to happen.
SpecLive == Init /\ [][Next]_vars /\ \A t \in Turns : WF_vars(Progress(t))

\* the conversation and credential requests admitted so far in the behaviour
Admitted == requests + Cardinality({a \in Adds : adds[a].pc # "idle"})

NextApi ==
    \/ TurnStep(1)
    \/ /\ Admitted < MaxRequests
       /\ \/ \E user_id \in Users, title \in Titles, agent_type \in {"langgraph", "crewai"},
                provider \in ProviderEnum :
                  create_conversation(user_id, title, agent_type, provider)
          \/ \E user_id \in Users : list_conversations(user_id)
          \/ \E user_id \in Users, conversation_id \in ConversationIds :
                  get_conversation(user_id, conversation_id)
          \/ \E user_id \in Users, conversation_id \in ConversationIds :
                  update_conversation(user_id, conversation_id, <<"Plans">>)
          \/ \E user_id \in Users, conversation_id \in ConversationIds :
                  delete_conversation(user_id, conversation_id)
          \/ \E user_id \in Users, conversation_id \in ConversationIds :
                  get_messages(user_id, conversation_id)
          \/ \E user_id \in Users, provider \in ProviderEnum, api_key \in ApiKeyInputs :
                  create_api_key(1, user_id, provider, api_key)
          \/ \E user_id \in Users : list_api_keys(user_id)
          \/ \E user_id \in Users, provider \in ProviderEnum :
                  delete_api_key(user_id, provider)
    \/ create_api_key_commit(1)

SpecApi == Init /\ [][NextApi]_vars

\* SpecHistory: one chat request on a conversation that holds n messages already,
\* one a second but for messages tied and tied + 1, created in the same second
\* (tied = 0: none), and a newer message in another conversation.
PriorMessages(n, tied) ==
    [i \in 1..(n + 1) |->
        IF i <= n
        THEN [id |-> i, conversation_id |-> 1,
              role |-> IF i % 2 = 1 THEN USER ELSE ASSISTANT,
              content |-> <<"m", ToString(i)>>,
              created_at |-> IF tied > 0 /\ i > tied THEN i - 2 ELSE i - 1]
        ELSE [id |-> i, conversation_id |-> 3, role |-> USER,
              content |-> <<"Hey">>, created_at |-> n]]

InitHistory ==
    /\ conversations = [c \in 1..Len(SeedConversations) |-> SeedConversations[c]]
    /\ \E n \in 0..MaxPrior, tied \in 0..MaxPrior :
         /\ tied < n
         /\ messages = PriorMessages(n, tied)
         /\ next_message_id = n + 2
         /\ clock = n
    /\ api_keys = SeedApiKeys
    /\ next_conversation_id = Len(SeedConversations) + 1
    /\ next_api_key_id = Cardinality(SeedApiKeys) + 1
    /\ turns = [t \in Turns |-> NewTurn]
    /\ requests = 0
    /\ response = NoResponse
    /\ adds = [a \in Adds |-> NewAdd]

NextHistory ==
    \/ \E mode \in Modes, message \in RequestMessages :
            chat_request(1, "alice", 1, mode, message)
    \/ chat_save_user(1)
    \/ chat_resolve(1)

SpecHistory == InitHistory /\ [][NextHistory]_vars

\* SpecResolver: one chat request; alice's conversation 1 carries any strategy tag
\* with any provider, and she has a credential for both providers.
InitResolver ==
    /\ \E agent_type \in AgentTypes, provider \in ProviderEnum :
         conversations = [c \in 1..Len(SeedConversations) |->
                            IF c = 1 THEN Conversation(1, "alice", agent_type, provider)
                            ELSE SeedConversations[c]]
    /\ messages = SeedMessages
    /\ api_keys = SeedApiKeys \cup {ApiKey(3, "alice", "anthropic", "sk-alice-2")}
    /\ next_message_id = Len(SeedMessages) + 1
    /\ next_conversation_id = Len(SeedConversations) + 1
    /\ next_api_key_id = Cardinality(SeedApiKeys) + 2
    /\ clock = Len(SeedMessages)
    /\ turns = [t \in Turns |-> NewTurn]
    /\ requests = 0
    /\ response = NoResponse
    /\ adds = [a \in Adds |-> NewAdd]

NextResolver == TurnStep(1)

SpecResolver == InitResolver /\ [][NextResolver]_vars

\* a second passes: datetime.utcnow() moves on
tick ==
    /\ clock < Len(SeedMessages) + MaxTicks
    /\ clock' = clock + 1
    /\ UNCHANGED <<conversations, messages, api_keys, next_message_id,
                   next_conversation_id, next_api_key_id, turns, requests, response,
                   adds>>

\* SpecOrder: one chat request, the passing of time, and a reading of the
\* conversation's messages.
NextOrder ==
    \/ TurnStep(1)
    \/ tick
    \/ \E user_id \in Users, conversation_id \in ConversationIds :
            get_conversation(user_id, conversation_id)
    \/ \E user_id \in Users, conversation_id \in ConversationIds :
            get_messages(user_id, conversation_id)

SpecOrder == Init /\ [][NextOrder]_vars

\* SpecVault: one chat request and the credential requests; alice's openai
\* credential is a token of the process-wide key, a token of a key since
\* rotated, a token whose ciphertext was altered, or no token at all.
StoredTokens ==
    {encrypt_api_key("sk-alice"),
     [fernet |-> "k-old", plaintext |-> "sk-alice", hmac |-> Sign("k-old", "sk-alice")],
     [fernet |-> ENCRYPTION_KEY, plaintext |-> "sk-forged",
      hmac |-> Sign(ENCRYPTION_KEY, "sk-alice")],
     [fernet |-> ENCRYPTION_KEY, plaintext |-> "garbage", hmac |-> <<>>]}

InitVault ==
    /\ conversations = [c \in 1..Len(SeedConversations) |-> SeedConversations[c]]
    /\ messages = SeedMessages
    /\ \E token \in StoredTokens :
         api_keys = {[ApiKey(1, "alice", "openai", "sk-alice") EXCEPT
                          !.encrypted_key = token],
                     ApiKey(2, "bob", "anthropic", "sk-bob")}
    /\ next_message_id = Len(SeedMessages) + 1
    /\ next_conversation_id = Len(SeedConversations) + 1
    /\ next_api_key_id = Cardinality(SeedApiKeys) + 1
    /\ clock = Len(SeedMessages)
    /\ turns = [t \in Turns |-> NewTurn]
    /\ requests = 0
    /\ response = NoResponse
    /\ adds = [a \in Adds |-> NewAdd]

NextVault ==
    \/ TurnStep(1)
    \/ \E user_id \in Users, provider \in ProviderEnum, api_key \in ApiKeyInputs :
            create_api_key(1, user_id, provider, api_key)
    \/ create_api_key_commit(1)
    \/ \E user_id \in Users, provider \in ProviderEnum :
            delete_api_key(user_id, provider)

SpecVault == InitVault /\ [][NextVault]_vars

\* SpecKeys: the credential requests of both users, two adds in flight at once.
NextKeys ==
    \/ \E a \in Adds, user_id \in Users, provider \in ProviderEnum,
          api_key \in ApiKeyInputs :
            create_api_key(a, user_id, provider, api_key)
    \/ \E a \in Adds : create_api_key_commit(a)
    \/ \E user_id \in Users : list_api_keys(user_id)
    \/ \E user_id \in Users, provider \in ProviderEnum :
            delete_api_key(user_id, provider)

SpecKeys == Init /\ [][NextKeys]_vars

(***************************************************************************)
(* Properties of the chat turn.                                            *)
(***************************************************************************)
\* the roles of a sequence of message rows
Roles(rows) == [i \in 1..Len(rows) |-> rows[i].role]

\* what a sequence of message rows says, ids aside
Said(rows) == [i \in 1..Len(rows) |-> [role |-> rows[i].role, content |-> rows[i].content]]

\* the assistant messages turn t has committed
AssistantRows(t) == SelectSeq(turns[t].appended, LAMBDA m : m.role = ASSISTANT)

\* part occurs in text as a run of consecutive tokens
Contains(text, part) ==
    \E i \in 0..(Len(text) - Len(part)) : SubSeq(text, i + 1, i + Len(part)) = part

\* turn t has yielded the [DONE] frame
SentDone(t) == \E i \in 1..Len(turns[t].frames) : turns[t].frames[i] = DoneFrame

\* a frame carrying the error marker
IsErrorFrame(frame) == Len(frame) >= 2 /\ frame[1] = "data: " /\ frame[2] = "Error: "

StreamOver(t) == turns[t].mode = "stream" /\ turns[t].pc = "done"

\* C1: a streaming turn whose agent stream ended without raising has appended exactly
\* one user message and then exactly one assistant message.
C1_CleanStreamAppendsUserThenAssistant ==
    \A t \in Turns :
        (StreamOver(t) /\ SentDone(t) /\ ~turns[t].raised)
            => Roles(turns[t].appended) = <<USER, ASSISTANT>>

\* C2: a streaming turn whose agent stream raised has appended exactly one
\* assistant message.
C2_RaisedStreamAppendsOneAssistant ==
    \A t \in Turns :
        (StreamOver(t) /\ turns[t].raised) => Len(AssistantRows(t)) = 1

\* C3: the assistant message saved for a streaming turn whose agent stream raised
\* holds the partial text accumulated so far, together with a failure marker.
C3_FailedStreamSavesPartialText ==
    \A t \in Turns :
        (StreamOver(t) /\ turns[t].raised /\ Len(AssistantRows(t)) = 1)
            => /\ Contains(AssistantRows(t)[1].content, turns[t].full_response)
               /\ Contains(AssistantRows(t)[1].content, <<"[Error: ">>)

\* C4: once the agent stream of a streaming turn has raised, the last frame yielded
\* is an error frame and no [DONE] frame was yielded in that turn.
C4_RaisedStreamEndsWithErrorFrame ==
    \A t \in Turns :
        (turns[t].mode = "stream" /\ turns[t].raised)
            => /\ turns[t].frames # <<>>
               /\ IsErrorFrame(turns[t].frames[Len(turns[t].frames)])
               /\ ~SentDone(t)

C4_Witness ==
    \E t \in Turns :
        /\ StreamOver(t) /\ turns[t].raised /\ turns[t].chunks >= 1
        /\ Len(turns[t].frames) = turns[t].chunks + 1
        /\ Len(AssistantRows(t)) = 1

\* the two turns were given the same request and the same agent stream, and both
\* ran to their end with the client connected and the conversation in place
SameRun(s, b) ==
    /\ turns[s].mode = "stream" /\ turns[b].mode = "message"
    /\ turns[s].pc = "done" /\ turns[b].pc = "done"
    /\ turns[s].invoked /\ turns[b].invoked
    /\ turns[s].user_id = turns[b].user_id
    /\ turns[s].conversation_id = turns[b].conversation_id
    /\ turns[s].message = turns[b].message
    /\ turns[s].chunks = turns[b].chunks
    /\ turns[s].raised = turns[b].raised
    /\ turns[s].error = turns[b].error
    /\ ~turns[s].closed /\ ~turns[s].crashed /\ ~turns[b].crashed

\* C5: a streaming turn and a blocking turn given the same request and the same
\* agent stream append the same messages (count, roles, order, contents).
C5_ModesPersistAlike ==
    \A s, b \in Turns :
        SameRun(s, b) => Said(turns[s].appended) = Said(turns[b].appended)

\* C6: a streaming turn whose client went away has still appended exactly one
\* assistant message once it is over.
C6_DisconnectStillPersists ==
    \A t \in Turns :
        (StreamOver(t) /\ turns[t].closed /\ turns[t].frames # <<>>)
            => Len(AssistantRows(t)) = 1

\* the conversation is the user's and no credential row exists for its provider
NoCredential(user_id, conversation_id) ==
    /\ conversation_id \in DOMAIN conversations
    /\ conversations[conversation_id].user_id = user_id
    /\ \A k \in api_keys :
         ~(k.user_id = user_id /\ k.provider = conversations[conversation_id].provider)

\* the step is the arrival of turn t's request
Arrives(t) == turns[t].pc = "idle" /\ turns'[t].pc # "idle"

\* C7: in both modes a request on an owned conversation whose provider has no
\* credential row ends at once with 400 "No API key configured ...": the store is
\* left as it was, nothing is appended and the agent is not invoked.
C7_MissingCredentialAborts ==
    [][\A t \in Turns :
         (Arrives(t) /\ NoCredential(turns'[t].user_id, turns'[t].conversation_id))
            => /\ turns'[t].pc = "done"
               /\ turns'[t].status = 400
               /\ turns'[t].detail = <<"No API key configured for ",
                        conversations[turns'[t].conversation_id].provider>>
               /\ turns'[t].appended = <<>>
               /\ turns'[t].service = None /\ ~turns'[t].invoked
               /\ turns'[t].frames = <<>>
               /\ store' = store]_vars

C7_Witness ==
    \E s, b \in Turns :
        /\ turns[s].mode = "stream" /\ turns[b].mode = "message"
        /\ \A t \in {s, b} :
             /\ turns[t].pc = "done" /\ turns[t].status = 400
             /\ NoCredential(turns[t].user_id, turns[t].conversation_id)
        /\ messages = SeedMessages

\* no conversation of that id exists, or it is another user's
NotOwned(user_id, conversation_id) ==
    \/ conversation_id \notin DOMAIN conversations
    \/ conversations[conversation_id].user_id # user_id

\* C8: in both modes a request naming a conversation that does not exist or is
\* another user's ends at once with 404 and no side effect: nothing is appended,
\* no credential is queried or decrypted, the agent is not invoked.
C8_NotFoundHasNoSideEffects ==
    [][\A t \in Turns :
         (Arrives(t) /\ NotOwned(turns'[t].user_id, turns'[t].conversation_id))
            => /\ turns'[t] =
                    [NewTurn EXCEPT !.pc = "done", !.status = 404,
                                    !.detail = <<"Conversation not found">>,
                                    !.user_id = turns'[t].user_id,
                                    !.conversation_id = turns'[t].conversation_id,
                                    !.mode = turns'[t].mode,
                                    !.message = turns'[t].message]
               /\ ~turns'[t].queried_key /\ turns'[t].api_key = None
               /\ ~turns'[t].invoked /\ turns'[t].appended = <<>>
               /\ store' = store]_vars

C8_Witness ==
    \E s, b \in Turns :
        /\ turns[s].mode = "stream" /\ turns[b].mode = "message"
        /\ turns[s].status = 404 /\ turns[b].status = 404
        /\ turns[s].conversation_id \in DOMAIN conversations
        /\ conversations[turns[s].conversation_id].user_id # turns[s].user_id
        /\ turns[b].conversation_id \notin DOMAIN conversations

(***************************************************************************)
(* Properties of ownership.                                                *)
(***************************************************************************)
\* the rows user_id owns: conversations, their messages, credentials
RowsOwnedBy(user_id) ==
    [conversations |-> {conversations[c] : c \in
                          {d \in DOMAIN conversations :
                              conversations[d].user_id = user_id}},
     messages |-> SelectSeq(messages, LAMBDA m :
                     /\ m.conversation_id \in DOMAIN conversations
                     /\ conversations[m.conversation_id].user_id = user_id),
     api_keys |-> {k \in api_keys : k.user_id = user_id}]

\* the step serves a request authenticated as user_id, or is a step of such a turn
ActsAs(user_id) ==
    \/ requests' = requests + 1 /\ response'.user_id = user_id
    \/ \E a \in Adds : adds'[a] # adds[a] /\ adds'[a].user_id = user_id
    \/ \E t \in Turns : turns'[t] # turns[t] /\ turns'[t].user_id = user_id

\* every row the last response is made of is a row of the user it went to
ResponseRowsOwned ==
    /\ \A i \in 1..Len(response.conversations) :
         /\ response.conversations[i].id \in DOMAIN conversations
         /\ conversations[response.conversations[i].id].user_id = response.user_id
    /\ \A i \in 1..Len(response.messages) :
         \E j \in 1..Len(messages) :
            /\ messages[j].id = response.messages[i].id
            /\ messages[j].conversation_id \in DOMAIN conversations
            /\ conversations[messages[j].conversation_id].user_id = response.user_id
    /\ \A k \in response.api_keys :
         \E row \in api_keys : row.id = k.id /\ row.user_id = response.user_id

\* C9: a step taken for user B leaves every conversation, message and credential
\* of every other user as it was; the rows of a response to B are B's, and the
\* history a turn of B hands to the agent is read from a conversation of B.
C9_OwnershipIsolation ==
    [][/\ \A u \in Users :
            ActsAs(u) => \A v \in Users \ {u} : RowsOwnedBy(v)' = RowsOwnedBy(v)
       /\ ResponseRowsOwned'
       /\ \A t \in Turns :
            (Arrives(t) /\ NotOwned(turns'[t].user_id, turns'[t].conversation_id))
                => turns'[t].history = <<>> /\ turns'[t].api_key = None]_vars

C9_Witness ==
    /\ response.user_id = "bob" /\ response.op = "list_conversations"
    /\ Len(response.conversations) = 3
    /\ turns[1].user_id = "bob" /\ turns[1].conversation_id = 1
    /\ turns[1].pc = "done"
    /\ RowsOwnedBy("alice").messages = SubSeq(SeedMessages, 1, 2)
    /\ Cardinality(RowsOwnedBy("alice").conversations) = 2

\* what the caller of a chat request sees of turn t
TurnResponse(t) ==
    [status |-> turns[t].status, detail |-> turns[t].detail,
     frames |-> turns[t].frames, body |-> turns[t].body]

\* C10: every route that takes a conversation id answers an id that is another
\* user's exactly as it answers an id that does not exist: the one 404
\* "Conversation not found", the same whatever the other users' rows are, and the
\* store is left as it was.
C10_NotOwnedIsNotFound ==
    [][\A u \in Users, c \in ConversationIds :
         NotOwned(u, c) =>
            /\ get_conversation(u, c) => response' = NotFound(u, "get_conversation")
            /\ (\E title \in Titles : update_conversation(u, c, title))
                  => response' = NotFound(u, "update_conversation") /\ store' = store
            /\ delete_conversation(u, c)
                  => response' = NotFound(u, "delete_conversation") /\ store' = store
            /\ get_messages(u, c) => response' = NotFound(u, "get_messages")
            /\ \A t \in Turns :
                 (\E mode \in Modes, message \in RequestMessages :
                        chat_request(t, u, c, mode, message))
                    => /\ TurnResponse(t)' =
                            [status |-> 404, detail |-> <<"Conversation not found">>,
                             frames |-> <<>>, body |-> NoRow]
                       /\ turns'[t].pc = "done"
                       /\ store' = store]_vars

C10_Witness ==
    /\ response = NotFound("bob", "get_messages")
    /\ 1 \in DOMAIN conversations /\ conversations[1].user_id = "alice"
    /\ turns[1].user_id = "bob" /\ turns[1].conversation_id = 2
    /\ turns[1].mode = "message" /\ turns[1].status = 404

(***************************************************************************)
(* Properties of the turn's order of persistence and of agent resolution.  *)
(***************************************************************************)
\* turn t has committed its user message, and did so before anything else
UserCommitted(t) ==
    Len(turns[t].appended) >= 1 /\ turns[t].appended[1].role = USER

\* the agent's chat stream of turn t has ended, cleanly or by raising
AgentEnded(t) == turns[t].pc \in {"yield_done", "yield_error", "done"}

\* C12: in both modes the agent is built and its chat stream started only after
\* the turn's user message is committed, and an assistant message is committed
\* only after that stream has ended.
C12_PersistenceOrdering ==
    \A t \in Turns :
        /\ (turns[t].service # None \/ turns[t].invoked) => UserCommitted(t)
        /\ AssistantRows(t) # <<>>
              => /\ turns[t].invoked /\ AgentEnded(t)
                 /\ Roles(turns[t].appended) = <<USER, ASSISTANT>>

C12_Witness ==
    \E s, b \in Turns :
        /\ turns[s].mode = "stream" /\ turns[b].mode = "message"
        /\ \A t \in {s, b} :
             /\ turns[t].pc = "done" /\ turns[t].chunks >= 1
             /\ Roles(turns[t].appended) = <<USER, ASSISTANT>>

\* the resolver has no agent for the pair: the tag is not registered, or it is a
\* direct strategy asked for with the other provider
Unresolvable(agent_type, provider) ==
    \/ agent_type \notin {"langgraph", "openai_direct", "anthropic_direct"}
    \/ agent_type = "openai_direct" /\ provider # "openai"
    \/ agent_type = "anthropic_direct" /\ provider # "anthropic"

\* the step is turn t's agent resolution, for a conversation the resolver rejects
ResolutionFails(t) ==
    /\ turns[t].pc = "resolve" /\ turns'[t].pc # "resolve"
    /\ turns[t].conversation_id \in DOMAIN conversations
    /\ Unresolvable(conversations[turns[t].conversation_id].agent_type,
                    conversations[turns[t].conversation_id].provider)

\* C13: in both modes a failed agent resolution ends the turn with a 400; the
\* user message the turn committed stays in the store, no assistant message is
\* appended and no frame is sent.
C13_ResolutionFailureKeepsUserMessage ==
    [][\A t \in Turns :
         ResolutionFails(t) =>
            /\ turns'[t].pc = "done" /\ turns'[t].status = 400
            /\ turns'[t].detail # <<>>
            /\ Roles(turns'[t].appended) = <<USER>>
            /\ turns'[t].appended = turns[t].appended
            /\ messages' = messages
            /\ \E i \in 1..Len(messages') : messages'[i] = turns'[t].appended[1]
            /\ turns'[t].frames = <<>> /\ ~turns'[t].invoked
            /\ turns'[t].service = None]_vars

C13_Witness ==
    \E s, b \in Turns :
        /\ turns[s].mode = "stream" /\ turns[b].mode = "message"
        /\ turns[s].conversation_id = 4 /\ turns[b].conversation_id = 5
        /\ \A t \in {s, b} :
             /\ turns[t].pc = "done" /\ turns[t].status = 400
             /\ Roles(turns[t].appended) = <<USER>>
             /\ \E i \in 1..Len(messages) : messages[i] = turns[t].appended[1]
             /\ turns[t].frames = <<>>

(***************************************************************************)
(* Properties of the resolver.                                             *)
(***************************************************************************)
\* the failure is ProviderStrategyMismatch: "<strategy> agent requires <provider> provider"
IsProviderStrategyMismatch(made) ==
    /\ ~made.ok /\ made.service = None
    /\ made.error \in {<<"openai_direct agent requires openai provider">>,
                       <<"anthropic_direct agent requires anthropic provider">>}

\* the failure is UnsupportedStrategy: "Unknown agent_type: <tag>. Supported: ..."
IsUnsupportedStrategy(made, agent_type) ==
    /\ ~made.ok /\ made.service = None
    /\ Len(made.error) = 3
    /\ made.error[1] = "Unknown agent_type: " /\ made.error[2] = agent_type

\* the resolver's answer for (agent_type, provider) is the one the table gives
ResolvedAsTabled(made, agent_type, provider) ==
    /\ agent_type = "langgraph"
          => made.ok /\ made.service = "LangGraphService"
    /\ (agent_type = "openai_direct" /\ provider = "openai")
          => made.ok /\ made.service = "OpenAIDirectService"
    /\ (agent_type = "anthropic_direct" /\ provider = "anthropic")
          => made.ok /\ made.service = "AnthropicDirectService"
    /\ (agent_type = "openai_direct" /\ provider = "anthropic")
          => IsProviderStrategyMismatch(made)
    /\ (agent_type = "anthropic_direct" /\ provider = "openai")
          => IsProviderStrategyMismatch(made)
    /\ agent_type \notin {"langgraph", "openai_direct", "anthropic_direct"}
          => /\ IsUnsupportedStrategy(made, agent_type)
             /\ ~IsProviderStrategyMismatch(made)

\* turn t is past its agent resolution
Resolved(t) ==
    /\ turns[t].pc \notin {"idle", "save_user", "resolve"}
    /\ turns[t].appended # <<>> /\ ~turns[t].crashed
    /\ turns[t].conversation_id \in DOMAIN conversations

\* C15: over all (strategy, provider) pairs the resolver gives the tool-augmented
\* strategy with either provider and each direct strategy with its own provider,
\* fails a direct strategy with the other provider as ProviderStrategyMismatch and
\* any other tag as UnsupportedStrategy, a different failure; a turn's resolution
\* ends as the table says for its conversation's pair.
C15_ResolverTable ==
    /\ \A agent_type \in AgentTypes, provider \in ProviderEnum :
         ResolvedAsTabled(AgentFactory_create(agent_type, provider),
                          agent_type, provider)
    /\ \A t \in Turns :
         (Resolved(t) /\ turns[t].service = None /\ ~turns[t].invoked) =>
            ResolvedAsTabled(
                [ok |-> turns[t].status # 400,
                 service |-> turns[t].service, error |-> turns[t].detail],
                conversations[turns[t].conversation_id].agent_type,
                conversations[turns[t].conversation_id].provider)
    /\ \A t \in Turns :
         (Resolved(t) /\ turns[t].service # None) =>
            ResolvedAsTabled(
                [ok |-> TRUE, service |-> turns[t].service, error |-> <<>>],
                conversations[turns[t].conversation_id].agent_type,
                conversations[turns[t].conversation_id].provider)

C15_Witness ==
    /\ turns[1].pc = "done" /\ turns[1].status = 400
    /\ turns[1].conversation_id = 1
    /\ conversations[1].agent_type = "anthropic_direct"
    /\ conversations[1].provider = "openai"
    /\ turns[1].detail = <<"anthropic_direct agent requires anthropic provider">>
    /\ Roles(turns[1].appended) = <<USER>>

(***************************************************************************)
(* Properties of the history window.                                       *)
(***************************************************************************)
\* the messages the conversation of turn t held before the turn: its rows, those
\* the turn itself appended aside
PriorRows(t) ==
    {m \in Rows(MessagesOf(turns[t].conversation_id)) :
        \A i \in 1..Len(turns[t].appended) : m.id # turns[t].appended[i].id}

\* the prior row a history entry was made from, where contents tell the rows apart
RowOf(t, entry) ==
    CHOOSE m \in PriorRows(t) : m.role = entry.role /\ m.content = entry.content

\* turn t has read its history
HistoryRead(t) == turns[t].pc \notin {"idle"} /\ turns[t].api_key # None

\* What the stored timestamps alone decide: the history of a turn on a conversation
\* of N prior messages has min(N, 20) entries, each the {role, content} of a
\* different prior message, created_at never decreasing, no message left out
\* having a later created_at than one taken, the turn's own message not among them.
HistoryWindowByCreatedAt ==
    \A t \in Turns :
        (/\ HistoryRead(t)
         /\ \A m, o \in PriorRows(t) : m.content = o.content => m = o)
        => LET history == turns[t].history
               N == Cardinality(PriorRows(t))
           IN  /\ Len(history) = IF N < 20 THEN N ELSE 20
               /\ \A i \in 1..Len(history) :
                    /\ DOMAIN history[i] = {"role", "content"}
                    /\ \E m \in PriorRows(t) :
                         m.role = history[i].role /\ m.content = history[i].content
                    /\ history[i].content # turns[t].message
               /\ \A i, j \in 1..Len(history) :
                    i < j => /\ RowOf(t, history[i]) # RowOf(t, history[j])
                             /\ RowOf(t, history[i]).created_at
                                  <= RowOf(t, history[j]).created_at
               /\ \A m \in PriorRows(t) :
                    (\A i \in 1..Len(history) : RowOf(t, history[i]) # m)
                        => \A i \in 1..Len(history) :
                              m.created_at <= RowOf(t, history[i]).created_at

\* the prior messages of turn t in the order they were created
PriorInOrder(t) ==
    SelectSeq(MessagesOf(turns[t].conversation_id), LAMBDA m : m \in PriorRows(t))

\* C14: the history of a turn on a conversation of N prior messages is the
\* {role, content} of the min(N, 20) messages created last, oldest first, and
\* the turn's own user message is not among them.
C14_HistoryIsMostRecentTwenty ==
    \A t \in Turns :
        HistoryRead(t) =>
            LET prior == PriorInOrder(t)
                N == Len(prior)
            IN  turns[t].history =
                    AsHistory(SubSeq(prior, IF N < 20 THEN 1 ELSE N - 19, N))

(***************************************************************************)
(* Properties of the order of a conversation's messages.                   *)
(***************************************************************************)
\* the last response lists the message of that id
Listed(id) == \E i \in 1..Len(response.messages) : response.messages[i].id = id

\* where the last response lists it
Position(id) == CHOOSE i \in 1..Len(response.messages) : response.messages[i].id = id

\* C16: get_conversation and get_messages list the user message of every turn
\* before the assistant message of that turn, also when both were created within
\* one tick of the clock.
C16_UserListedBeforeAssistant ==
    \A t \in Turns :
        (/\ response.op \in {"get_conversation", "get_messages"}
         /\ Roles(turns[t].appended) = <<USER, ASSISTANT>>
         /\ Listed(turns[t].appended[1].id) /\ Listed(turns[t].appended[2].id))
        => Position(turns[t].appended[1].id) < Position(turns[t].appended[2].id)

(***************************************************************************)
(* Properties of the frames of a stream.                                   *)
(***************************************************************************)
\* c1 + ... + cn
RECURSIVE ChunksText(_)
ChunksText(n) == IF n = 0 THEN <<>> ELSE ChunksText(n - 1) \o ChunkText(n)

\* C17: a streaming turn whose agent yielded chunks c1..cn and ended without
\* raising has sent n data frames in chunk order and then one [DONE] frame, and
\* the store has gained one assistant message of content c1 + ... + cn.
C17_CleanStreamFraming ==
    \A t \in Turns :
        (StreamOver(t) /\ SentDone(t) /\ ~turns[t].raised) =>
            /\ turns[t].frames =
                 [i \in 1..(turns[t].chunks + 1) |->
                    IF i <= turns[t].chunks THEN DataFrame(ChunkText(i)) ELSE DoneFrame]
            /\ Len(AssistantRows(t)) = 1
            /\ AssistantRows(t)[1].content = ChunksText(turns[t].chunks)

\* C20: two turns of one mode given the same request and the same agent stream
\* but for the text of the exception it raises are answered alike: the error
\* frame, or the error response, does not carry that text.
C20_UpstreamErrorTextNotExposed ==
    \A s, b \in Turns :
        (/\ turns[s].mode = turns[b].mode
         /\ turns[s].pc = "done" /\ turns[b].pc = "done"
         /\ turns[s].raised /\ turns[b].raised
         /\ turns[s].user_id = turns[b].user_id
         /\ turns[s].conversation_id = turns[b].conversation_id
         /\ turns[s].message = turns[b].message
         /\ turns[s].chunks = turns[b].chunks
         /\ ~turns[s].closed /\ ~turns[b].closed
         /\ ~turns[s].crashed /\ ~turns[b].crashed)
        => TurnResponse(s) = TurnResponse(b)

(***************************************************************************)
(* Properties of the credential vault.                                     *)
(***************************************************************************)
\* the credential strings of the model
Plaintexts == {"sk-alice", "sk-bob"} \cup ApiKeyInputs

\* the token is none that the vault makes under the process-wide key
Undecryptable(token) == token \notin {encrypt_api_key(x) : x \in Plaintexts}

\* the conversation is the user's, and the credential stored for its provider
\* cannot be decrypted
HoldsBadToken(user_id, conversation_id) ==
    /\ conversation_id \in DOMAIN conversations
    /\ conversations[conversation_id].user_id = user_id
    /\ \E k \in api_keys :
         /\ k.user_id = user_id
         /\ k.provider = conversations[conversation_id].provider
         /\ Undecryptable(k.encrypted_key)

\* C18: a request whose stored credential cannot be decrypted ends at once with a
\* client error (4xx) for the credential, not a server error; no message is
\* persisted, no frame is sent, and no plaintext comes out of the token.
C18_BadTokenIsClientError ==
    [][\A t \in Turns :
         (Arrives(t) /\ HoldsBadToken(turns'[t].user_id, turns'[t].conversation_id))
            => /\ turns'[t].pc = "done"
               /\ turns'[t].status \in 400..499
               /\ turns'[t].api_key = None
               /\ turns'[t].appended = <<>> /\ turns'[t].frames = <<>>
               /\ ~turns'[t].invoked
               /\ store' = store]_vars

\* the plaintext last added for (user_id, provider): that of the committed add, or
\* else the one the store started with
LastAdded(user_id, provider) ==
    IF \E a \in Adds : /\ adds[a].pc = "done" /\ adds[a].status = 201
                       /\ adds[a].user_id = user_id /\ adds[a].provider = provider
    THEN adds[CHOOSE a \in Adds :
                 /\ adds[a].pc = "done" /\ adds[a].status = 201
                 /\ adds[a].user_id = user_id /\ adds[a].provider = provider].api_key
    ELSE IF user_id = "alice" THEN "sk-alice" ELSE "sk-bob"

\* C19: decrypt_api_key(encrypt_api_key(x)) = x for every credential string x, and
\* the key a turn hands to the agent is the plaintext last added for the owner and
\* the conversation's provider.
C19_RoundTrip ==
    /\ [](\A x \in Plaintexts : decrypt_api_key(encrypt_api_key(x)) = x)
    /\ [][\A t \in Turns :
            (Arrives(t) /\ turns'[t].pc = "save_user")
                => turns'[t].api_key =
                     LastAdded(turns'[t].user_id,
                               conversations[turns'[t].conversation_id].provider)]_vars

C19_Witness ==
    /\ adds[1].pc = "done" /\ adds[1].status = 201
    /\ adds[1].user_id = "alice" /\ adds[1].provider = "openai"
    /\ adds[1].existing_key # NoRow
    /\ turns[1].conversation_id = 1 /\ turns[1].service = "LangGraphService"
    /\ turns[1].api_key = "sk-new"

(***************************************************************************)
(* Properties of the credential table.                                     *)
(***************************************************************************)
\* no two credential rows share (user_id, provider)
OnePerUserProvider ==
    \A k, o \in api_keys :
        (k.user_id = o.user_id /\ k.provider = o.provider) => k = o

\* the step commits add a, whose lookup found a row that is still stored
Overwrites(a) ==
    /\ adds[a].pc = "commit" /\ adds'[a].pc = "done"
    /\ adds[a].existing_key # NoRow
    /\ \E k \in api_keys : k.id = adds[a].existing_key.id

\* C11: at most one credential row per (user_id, provider) in every reachable
\* state, whatever the interleaving of adds and deletes; an add for a pair whose
\* row is stored overwrites that row's ciphertext and sets its updated_at to now,
\* and adds no row.
C11_OneCredentialPerUserProvider ==
    /\ []OnePerUserProvider
    /\ [][\A a \in Adds :
            Overwrites(a) =>
                /\ {k.id : k \in api_keys'} = {k.id : k \in api_keys}
                /\ \A k \in api_keys :
                     k.id # adds[a].existing_key.id => k \in api_keys'
                /\ \E k \in api_keys, n \in api_keys' :
                     /\ k.id = adds[a].existing_key.id /\ n.id = k.id
                     /\ n.user_id = adds[a].user_id /\ n.provider = adds[a].provider
                     /\ decrypt_api_key(n.encrypted_key) = adds[a].api_key
                     /\ n.updated_at = clock' /\ n.updated_at >= k.updated_at
                /\ adds'[a].status = 201]_vars

C11_Witness ==
    /\ \A a \in Adds :
         /\ adds[a].pc = "done" /\ adds[a].existing_key = NoRow
         /\ adds[a].user_id = "alice" /\ adds[a].provider = "anthropic"
    /\ adds[1].status = 201 /\ adds[2].status = 500
    /\ Cardinality(ApiKeyRows("alice", "anthropic")) = 1
    /\ Cardinality(api_keys) = 3

(***************************************************************************)
(* Properties of the response generator.                                   *)
(***************************************************************************)
\* the chunk a data frame carries
Payload(frame) == SubSeq(frame, 2, Len(frame) - 1)

\* the payloads of the first n frames, concatenated
RECURSIVE Forwarded(_, _)
Forwarded(frames, n) ==
    IF n = 0 THEN <<>> ELSE Forwarded(frames, n - 1) \o Payload(frames[n])

\* C21: at every point of a streaming turn the accumulator is the concatenation,
\* in order, of the chunks whose frames were yielded; every yielded chunk frame
\* carries a chunk the accumulator holds, and what follows them is terminal.
C21_AccumulatorMatchesForwarded ==
    \A t \in Turns :
        turns[t].mode = "stream" =>
            /\ Len(turns[t].frames) >= turns[t].chunks
            /\ \A i \in 1..turns[t].chunks :
                 turns[t].frames[i] = DataFrame(ChunkText(i))
            /\ \A i \in (turns[t].chunks + 1)..Len(turns[t].frames) :
                 turns[t].frames[i] = DoneFrame \/ IsErrorFrame(turns[t].frames[i])
            /\ turns[t].full_response = Forwarded(turns[t].frames, turns[t].chunks)

C21_Witness ==
    \E t \in Turns :
        /\ turns[t].mode = "stream" /\ turns[t].pc = "stream"
        /\ turns[t].chunks = 2 /\ Len(turns[t].frames) = 2
        /\ turns[t].full_response = <<"Hello", " there">>

\* the terminal frames turn t has sent
TerminalFrames(t) ==
    SelectSeq(turns[t].frames, LAMBDA f : f = DoneFrame \/ IsErrorFrame(f))

\* C22: a streaming turn sends at most one terminal frame, the [DONE] frame or
\* else an error frame, never both, and exactly one once it is over with the
\* client still there.
C22_OneTerminalFrame ==
    \A t \in Turns :
        turns[t].mode = "stream" =>
            /\ Len(TerminalFrames(t)) <= 1
            /\ (StreamOver(t) /\ turns[t].status = 200 /\ ~turns[t].closed)
                  => Len(TerminalFrames(t)) = 1

\* C23: a streaming turn whose agent stream raised ends inside the generator: no
\* exception leaves it, the error frame is the last frame sent and the assistant
\* message is persisted.
C23_UpstreamFailureRecovered ==
    \A t \in Turns :
        (StreamOver(t) /\ turns[t].raised) =>
            /\ ~turns[t].crashed
            /\ turns[t].frames # <<>>
            /\ IsErrorFrame(turns[t].frames[Len(turns[t].frames)])
            /\ Len(AssistantRows(t)) = 1

\* a turn in one of the states Persisted or Failed
Terminal(t) == turns[t].pc = "done"

\* Persisted: both messages of the turn are committed
Persisted(t) == Terminal(t) /\ Roles(turns[t].appended) = <<USER, ASSISTANT>>

\* Failed: the turn ended without committing both messages
Failed(t) == Terminal(t) /\ ~Persisted(t)

\* C24: under fair scheduling every admitted turn eventually reaches Persisted
\* or Failed; the agent's chunk sequence has at most MaxChunks chunks.
C24_TurnTerminates ==
    \A t \in Turns : (turns[t].pc # "idle") ~> Terminal(t)

C24_Witness ==
    \E t, u \in Turns :
        /\ Persisted(t) /\ turns[t].mode = "stream" /\ turns[t].chunks = MaxChunks
        /\ Failed(u) /\ turns[u].invoked

(***************************************************************************)
(* Properties of concurrent turns.                                         *)
(***************************************************************************)
\* the messages turn t appends are those of its own request and its own run
OwnAppends(t) ==
    LET rows == turns[t].appended IN
    /\ Len(rows) <= 2
    /\ \A i \in 1..Len(rows) : rows[i].conversation_id = turns[t].conversation_id
    /\ Len(rows) >= 1 => rows[1].role = USER /\ rows[1].content = turns[t].message
    /\ Len(rows) = 2 =>
          /\ rows[2].role = ASSISTANT
          /\ rows[2].content \in {turns[t].full_response, ErrorContent(turns[t].error)}

\* the messages a conversation has gained since the start
Gained(conversation_id) ==
    SelectSeq(MessagesOf(conversation_id), LAMBDA m : m.id > Len(SeedMessages))

\* the turns on a conversation
TurnsOn(conversation_id) ==
    {t \in Turns : turns[t].pc # "idle" /\ turns[t].conversation_id = conversation_id}

\* a step of turn s leaves the other turns and the other conversations alone
TurnStepIsLocal ==
    \A s \in Turns :
        turns'[s] # turns[s] =>
            /\ \A t \in Turns \ {s} : turns'[t] = turns[t]
            /\ \A c \in ConversationIds :
                 c # turns'[s].conversation_id => MessagesOf(c)' = MessagesOf(c)

\* C25: under every interleaving a turn appends only to the conversation named in
\* its request, what a conversation gains is exactly what the turns on it append,
\* each from its own request and its own agent run, and no step of one turn
\* changes another turn or another conversation's messages.
C25_TurnsAreIndependent ==
    /\ [](\A t \in Turns : OwnAppends(t))
    /\ [](\A c \in DOMAIN conversations :
             Rows(Gained(c)) = UNION {Rows(turns[t].appended) : t \in TurnsOn(c)})
    /\ [][TurnStepIsLocal]_vars

C25_Witness ==
    \E t, u \in Turns :
        /\ turns[t].conversation_id = 1 /\ turns[u].conversation_id = 3
        /\ turns[t].user_id = "alice" /\ turns[u].user_id = "bob"
        /\ Persisted(t) /\ Persisted(u)
        /\ turns[t].appended[1].id < turns[u].appended[1].id
        /\ turns[u].appended[1].id < turns[t].appended[2].id
        /\ turns[t].appended[2].id < turns[u].appended[2].id
        /\ Said(Gained(1)) = Said(turns[t].appended)
        /\ Said(Gained(3)) = Said(turns[u].appended)

\* a turn that ended cleanly: the agent ran to the end of its stream, every
\* commit went through and the client stayed to the end
EndedCleanly(t) ==
    /\ Terminal(t) /\ turns[t].invoked /\ turns[t].status = 200
    /\ ~turns[t].raised /\ ~turns[t].closed /\ ~turns[t].crashed
    /\ turns[t].error = <<>>

\* the rows of a given role among rows
OfRole(rows, role) == SelectSeq(rows, LAMBDA m : m.role = role)

\* row comes before other in the insertion order of rows
Before(rows, row, other) ==
    \E i, j \in DOMAIN rows : i < j /\ rows[i] = row /\ rows[j] = other

\* C26: once two turns on the same conversation have both ended cleanly, the
\* conversation has gained exactly two user messages and two assistant messages,
\* all distinct, and each turn's user message was committed before that turn's
\* assistant message.
C26_NoMessageLostOrDuplicated ==
    \A c \in DOMAIN conversations :
        \A t, u \in TurnsOn(c) :
            (t # u /\ EndedCleanly(t) /\ EndedCleanly(u)) =>
                /\ Len(OfRole(Gained(c), USER)) = 2
                /\ Len(OfRole(Gained(c), ASSISTANT)) = 2
                /\ Len(Gained(c)) = 4
                /\ Cardinality({Gained(c)[i].id : i \in 1..Len(Gained(c))}) = 4
                /\ \A v \in {t, u} :
                     /\ Roles(turns[v].appended) = <<USER, ASSISTANT>>
                     /\ Before(Gained(c), turns[v].appended[1], turns[v].appended[2])

\* both turns saved their user message before either saved its reply
C26_Witness ==
    \E t, u \in Turns :
        /\ t # u
        /\ turns[t].conversation_id = 1 /\ turns[u].conversation_id = 1
        /\ 1 \in DOMAIN conversations
        /\ EndedCleanly(t) /\ EndedCleanly(u)
        /\ Roles(Gained(1)) = <<USER, USER, ASSISTANT, ASSISTANT>>
        /\ Gained(1)[3] = turns[u].appended[2]
        /\ Gained(1)[1] = turns[t].appended[1]

(***************************************************************************)
(* Properties of the conversation row.                                     *)
(***************************************************************************)
\* the step is a title update of conversation c by one of the users
IsUpdateTitle(c) ==
    \E user_id \in Users : update_conversation(user_id, c, <<"Plans">>)

\* the conversations that exist before and after a step
Kept == DOMAIN conversations \cap DOMAIN conversations'

\* C27: a step of a chat turn leaves every conversation row as it was; a step that
\* changes an existing row, its updated_at included, is a title update of that
\* row; and a step that appends a message leaves the order list_conversations
\* returns for each user unchanged.
C27_TurnLeavesConversationRow ==
    [][/\ turns' # turns => conversations' = conversations
       /\ \A c \in Kept : conversations'[c] # conversations[c] => IsUpdateTitle(c)
       /\ Len(messages') > Len(messages) =>
             \A user_id \in Users : ListOrders(user_id)' = ListOrders(user_id)]_vars

\* a persisted turn on conversation 1, listed after the conversation whose title
\* was edited, with the updated_at it started with
C27_Witness ==
    /\ Persisted(1) /\ turns[1].conversation_id = 1
    /\ {1, 2} \subseteq DOMAIN conversations
    /\ conversations[1].updated_at = 0
    /\ conversations[2].updated_at > 0
    /\ ListOrders("alice") = {<<2, 1>>}

\* every message belongs to a conversation that exists
NoOrphan ==
    \A i \in DOMAIN messages : messages[i].conversation_id \in DOMAIN conversations

\* the conversations a step deletes
Deleted == DOMAIN conversations \ DOMAIN conversations'

\* a step that deletes a conversation is its owner's delete request; it removes
\* that conversation with all of its messages and leaves every other row alone
DeleteRemovesItsMessagesOnly ==
    \A c \in Deleted :
        /\ response'.op = "delete_conversation"
        /\ response'.user_id = conversations[c].user_id
        /\ Deleted = {c}
        /\ \A k \in DOMAIN conversations' : conversations'[k] = conversations[k]
        /\ messages' = SelectSeq(messages, LAMBDA m : m.conversation_id # c)
        /\ api_keys' = api_keys
        /\ turns' = turns

\* C28: deleting a conversation, which only its owner can, removes all of its
\* messages and nothing else, and in no reachable state does a message name a
\* conversation that does not exist, also when the conversation is deleted under
\* a turn that is still running.
C28_DeleteCascadesNoOrphan ==
    /\ []NoOrphan
    /\ [][DeleteRemovesItsMessagesOnly]_vars

\* conversation 1 was deleted after the turn on it had saved its user message;
\* the turn's reply was refused and the table holds the other conversations' rows
C28_Witness ==
    \E t \in Turns :
        /\ turns[t].conversation_id = 1 /\ 1 \notin DOMAIN conversations
        /\ turns[t].mode = "stream" /\ Terminal(t)
        /\ turns[t].chunks = MaxChunks /\ SentDone(t)
        /\ Roles(turns[t].appended) = <<USER>>
        /\ messages = SelectSeq(SeedMessages, LAMBDA m : m.conversation_id # 1)
        /\ NoOrphan

====
